---- MODULE Spec2Model ----
(***************************************************************************)
(* The KremCheats detection service: the presence tracker (connect,        *)
(* disconnect, heartbeat), the model loader with /reload-model, the        *)
(* /detect handler and the read endpoints, in the three revisions the      *)
(* repository holds:                                                       *)
(*   "server.js" (v2.1.0), "part_000" (v2.2.0), "part_001" (v2.3.0).       *)
(* The revision is fixed by Init; every handler branches on it where the   *)
(* revisions differ.                                                       *)
(***************************************************************************)
EXTENDS Integers, Sequences, FiniteSets, TLC

\* ---------------------------------------------------------------- bounds

\* totalConnections is capped: connects and revivals stop at this count.
MaxConnections == 4
\* totalDetections is capped: no /detect is accepted beyond this count.
MaxDetections == 2
\* /reload-model requests that may be in flight at once (part_000).
MaxReloads == 2
\* /detect requests that may be in flight at once.
MaxInFlight == 1
\* The Detector returns at most this many detections.
MaxPreds == 2

\* ------------------------------------------------------- program constants

\* /detect rejects encoded image data shorter than this many characters.
MinImageLength == 100

Revisions == {"server.js", "part_000", "part_001"}

\* JavaScript null and undefined, and a field a JSON body does not carry.
Null == "null"
Absent == "<absent>"

\* userId values a request may carry: none, the empty string, client-chosen
\* strings (a client may also send a string of the generated form).
SuppliedIds == {"alice", "bob", "user_1_a"}
\* Values `user_${Date.now()}_${random}` may take.
GeneratedIds == {"user_1_a", "user_2_b"}
UserIdInputs == {Absent, ""} \cup SuppliedIds

\* JavaScript truthiness of a string-or-undefined value.
Truthy(x) == x # Absent /\ x # Null /\ x # ""

\* e.message of an error thrown by an external module.
ErrorMessages == {"E"}

VARIABLES
    rev,              \* which revision of the service runs
    listening,        \* app.listen has been called
    required,         \* Node's module cache: modules require() has loaded
    tf,               \* the TensorFlow module in use, or Null
    detectionModel,   \* the Detector, or Null
    modelLoaded,      \* CONFIG.modelLoaded
    loadError,        \* CONFIG.loadError
    backend,          \* CONFIG.backend
    loads,            \* loadModel invocations in flight
    activeUsers,      \* stats.activeUsers
    totalConnections, \* stats.totalConnections
    peakUsers,        \* stats.peakUsers
    totalDetections,  \* stats.totalDetections
    dets,             \* /detect requests in flight
    sent,             \* the request handled last and the response it got
    maxActive         \* history: the largest size activeUsers has had

modelVars == <<required, tf, detectionModel, modelLoaded, loadError, backend>>
presenceVars == <<activeUsers, totalConnections, peakUsers, maxActive>>
vars == <<rev, listening, required, tf, detectionModel, modelLoaded, loadError,
          backend, loads, activeUsers, totalConnections, peakUsers,
          totalDetections, dets, sent, maxActive>>

\* ------------------------------------------------------------------ Init

LoadIds == 0 .. MaxReloads
DetIds == 1 .. MaxInFlight

\* A /detect request in flight: where its handler is suspended, the numeric
\* fields of its body (-1 when missing), what it passes to the Detector, and
\* what it has done so far.
IdleDet == [pc |-> "idle", loaded |-> FALSE, dataLen |-> 0,
            reqMaxDetections |-> -1, reqConfidence |-> -1,
            maxDetections |-> 0, confidence |-> 0,
            decoderCalls |-> 0, detectorCalls |-> 0, tensor |-> "none"]

\* A loadModel invocation: where it is suspended, the backend candidates it
\* has tried, the one it has chosen, and how it ended.
IdleLoad == [pc |-> "idle", tried |-> << >>, chosen |-> "none", result |-> "none"]

NoResponse == [op |-> "none"]

Init ==
    /\ rev \in Revisions
    /\ listening = FALSE
    /\ required = {}
    /\ tf = Null
    /\ detectionModel = Null
    /\ modelLoaded = FALSE
    /\ loadError = Null
    /\ backend = "none"
    /\ loads = [i \in LoadIds |-> IdleLoad]
    /\ activeUsers = {}
    /\ totalConnections = 0
    /\ peakUsers = 0
    /\ totalDetections = 0
    /\ dets = [d \in DetIds |-> IdleDet]
    /\ sent = NoResponse
    /\ maxActive = 0

\* ---------------------------------------------------------- model loader

\* require(m): a cached module is returned; otherwise loading it may throw.
RequireOutcomes(m) == IF m \in required THEN {TRUE} ELSE BOOLEAN

\* e.message of the error require(m) throws.
ErrorOf(m) == "Cannot find module '" \o m \o "'"

\* The backend candidates of part_000, in the order loadModel tries them.
Candidates == <<"tfjs-node", "tfjs">>

\* An invocation of loadModel that never returned
Stuck(i) == "stuck"
\* A loadModel invocation has returned: the initial one (id 0) lets the
\* server listen; a reload's handler still has its response to send.
Returned(i) == IF i = 0 THEN "done" ELSE "returned"
\* loadModel().then(listen), were the promise rejected by a failed load
ListenIfLoaded(i) == listening' = (listening \/ (i = 0 /\ loads'[i].result = "loaded"))
\* loadModel().then(listen): the promise is fulfilled however the load went
ListenAfter(i) == listening' = (listening \/ i = 0)

\* Invocation i suspends at an await, or returns with a result: "loaded",
\* "backendFailed" (no TensorFlow backend), "modelFailed" (coco-ssd).
Suspend(i, r, pc) == loads' = [loads EXCEPT ![i] = [r EXCEPT !.pc = pc]]
Return(i, r, result) ==
    /\ loads' = [loads EXCEPT ![i] = [r EXCEPT !.pc = Returned(i), !.result = result]]
    /\ ListenAfter(i)

\* Handlers of new requests run only between turns of the event loop: not
\* between the return of loadModel and the reload handler that awaits it.
Accepting == listening /\ \A i \in LoadIds : loads[i].pc # "returned"

\* loadModel of server.js, up to its await.
LoadBeginA(i) ==
    /\ rev = "server.js"
    /\ \E okTf \in RequireOutcomes("tfjs-node"), okCoco \in RequireOutcomes("coco-ssd") :
         LET r == [IdleLoad EXCEPT !.tried = <<"tfjs-node">>] IN
         \/ /\ ~okTf
            /\ Return(i, r, "backendFailed")
            /\ UNCHANGED <<required, tf>>
         \/ /\ okTf /\ ~okCoco
            /\ tf' = "tfjs-node"
            /\ required' = required \cup {"tfjs-node"}
            /\ Return(i, [r EXCEPT !.chosen = "tfjs-node"], "modelFailed")
         \/ /\ okTf /\ okCoco
            /\ tf' = "tfjs-node"
            /\ required' = required \cup {"tfjs-node", "coco-ssd"}
            /\ Suspend(i, [r EXCEPT !.chosen = "tfjs-node"], "cocoLoad")
            /\ UNCHANGED listening
    /\ UNCHANGED <<detectionModel, modelLoaded, loadError, backend>>

\* The candidates loadModel of part_000 tries when tfjs-node loads (okNode)
\* or throws: the second is required only in the catch block of the first.
TriedCandidates(okNode) == IF okNode THEN SubSeq(Candidates, 1, 1) ELSE Candidates

\* A diagnostic that would keep the messages of both candidates.
CombinedDiagnostic ==
    "TensorFlow failed to load: " \o ErrorOf(Candidates[1]) \o "; " \o ErrorOf(Candidates[2])
\* The diagnostic part_000 keeps when both candidates threw.
BackendDiagnostic == "TensorFlow failed to load: " \o ErrorOf(Candidates[1])

\* The diagnostic part_000 keeps when coco-ssd failed with message e.
ModelDiagnostic(e) == "Model failed to load: " \o e

\* loadModel of part_000, up to its await: the backend chain, then coco-ssd.
\* loaded0 and error0 are CONFIG.modelLoaded and CONFIG.loadError at the call
\* (the reload handler resets both right before it calls loadModel).
LoadBeginB(i, loaded0, error0) ==
    /\ rev = "part_000"
    /\ modelLoaded' = loaded0
    /\ \E okNode \in RequireOutcomes(Candidates[1]), okJs \in RequireOutcomes(Candidates[2]),
          okCoco \in RequireOutcomes("coco-ssd") :
         LET r == [IdleLoad EXCEPT !.tried = TriedCandidates(okNode)]
             c == r.tried[Len(r.tried)]
         IN
         \/ /\ ~okNode /\ ~okJs
            /\ loadError' = BackendDiagnostic
            /\ Return(i, r, "backendFailed")
            /\ UNCHANGED <<required, tf, backend>>
         \/ /\ okNode \/ okJs
            /\ tf' = c
            /\ backend' = c
            /\ \/ /\ ~okCoco
                  /\ required' = required \cup {c}
                  /\ loadError' = ModelDiagnostic(ErrorOf("coco-ssd"))
                  /\ Return(i, [r EXCEPT !.chosen = c], "modelFailed")
               \/ /\ okCoco
                  /\ required' = required \cup {c, "coco-ssd"}
                  /\ loadError' = error0
                  /\ Suspend(i, [r EXCEPT !.chosen = c], "cocoLoad")
                  /\ UNCHANGED listening
    /\ UNCHANGED detectionModel

\* loadModel of part_001, up to its first await (tf.setBackend).
LoadBeginC(i) ==
    /\ rev = "part_001"
    /\ \E okJs \in RequireOutcomes("tfjs") :
         LET r == [IdleLoad EXCEPT !.tried = <<"tfjs">>] IN
         \/ /\ ~okJs
            /\ loadError' = ErrorOf("tfjs")
            /\ modelLoaded' = FALSE
            /\ Return(i, r, "backendFailed")
            /\ UNCHANGED <<required, tf>>
         \/ /\ okJs
            /\ tf' = "tfjs"
            /\ required' = required \cup {"tfjs"}
            /\ Suspend(i, r, "setBackend")
            /\ UNCHANGED <<loadError, modelLoaded, listening>>
    /\ UNCHANGED <<detectionModel, backend>>

\* The catch block of loadModel that surrounds its awaits, per revision, for
\* an error with message e: server.js logs it, part_000 keeps it as a model
\* diagnostic, part_001 keeps it as it is and resets CONFIG.modelLoaded.
LoadCatch(i, result, e) ==
    /\ loadError' = IF rev = "server.js" THEN loadError
                    ELSE IF rev = "part_000" THEN ModelDiagnostic(e)
                    ELSE e
    /\ modelLoaded' = IF rev = "part_001" THEN FALSE ELSE modelLoaded
    /\ Return(i, loads[i], result)
    /\ UNCHANGED <<tf, detectionModel, backend>>

\* part_001: await tf.setBackend('cpu'), await tf.ready(), then
\* require('@tensorflow-models/coco-ssd') and the call of cocoSsd.load.
LoadStepC(i) ==
    /\ rev = "part_001"
    /\ \/ /\ loads[i].pc = "setBackend"
          /\ \/ /\ Suspend(i, loads[i], "ready")
                /\ UNCHANGED <<modelVars, listening>>
             \/ \E e \in ErrorMessages :
                  /\ LoadCatch(i, "backendFailed", e)
                  /\ UNCHANGED required
       \/ /\ loads[i].pc = "ready"
          /\ \/ \E e \in ErrorMessages :
                  /\ LoadCatch(i, "backendFailed", e)
                  /\ UNCHANGED required
             \/ \E okCoco \in RequireOutcomes("coco-ssd") :
                  \/ /\ okCoco
                     /\ required' = required \cup {"coco-ssd"}
                     /\ Suspend(i, [loads[i] EXCEPT !.chosen = "tfjs"], "cocoLoad")
                     /\ UNCHANGED <<tf, detectionModel, modelLoaded, loadError,
                                    backend, listening>>
                  \/ /\ ~okCoco
                     /\ LoadCatch(i, "modelFailed", ErrorOf("coco-ssd"))
                     /\ UNCHANGED required

\* detectionModel, were the loaded model not kept
ModelDropped == Null
\* detectionModel = await cocoSsd.load(...)
ModelAfterSuccess == "model"

\* CONFIG.modelLoaded, were the success not recorded
LoadedNever == FALSE
\* CONFIG.modelLoaded after a successful cocoSsd.load.
LoadedAfterSuccess == TRUE

\* await cocoSsd.load(...) settles: the model is kept and the load marked
\* successful, or the catch block runs.
LoadFinish(i) ==
    /\ loads[i].pc = "cocoLoad"
    /\ \/ /\ detectionModel' = ModelAfterSuccess
          /\ modelLoaded' = LoadedAfterSuccess
          /\ loadError' = IF rev = "server.js" THEN loadError ELSE Null
          /\ Return(i, loads[i], "loaded")
          /\ UNCHANGED <<required, tf, backend>>
       \/ \E e \in ErrorMessages :
            /\ LoadCatch(i, "modelFailed", e)
            /\ UNCHANGED required

\* The call loadModel() at the end of the file.
StartServer ==
    /\ loads[0].pc = "idle"
    /\ (LoadBeginA(0) \/ LoadBeginB(0, modelLoaded, loadError) \/ LoadBeginC(0))
    /\ UNCHANGED <<rev, activeUsers, totalConnections, peakUsers, totalDetections,
                   dets, sent, maxActive>>

\* Invocation i of loadModel resumes after the await it is suspended at.
LoadResume(i) ==
    /\ LoadStepC(i) \/ LoadFinish(i)
    /\ UNCHANGED <<rev, activeUsers, totalConnections, peakUsers, totalDetections,
                   dets, sent, maxActive>>

LoadProgress == \E i \in LoadIds : LoadResume(i)

\* A request is given the lowest identifier no pending request holds.
FreeLoad(i) ==
    /\ loads[i].pc = "idle"
    /\ \A j \in LoadIds \ {0} : j < i => loads[j].pc # "idle"

\* POST /reload-model (part_000): reset the flags, call loadModel; the
\* handler resumes, and answers, once loadModel has returned.
Reload ==
    /\ Accepting
    /\ rev = "part_000"
    /\ \E i \in LoadIds \ {0} :
         /\ FreeLoad(i)
         /\ LoadBeginB(i, FALSE, Null)
    /\ UNCHANGED <<rev, activeUsers, totalConnections, peakUsers, totalDetections,
                   dets, sent, maxActive>>

\* The reload handler that awaited invocation i resumes and answers.
ReloadAnswer(i) ==
    /\ loads[i].pc = "returned"
    /\ loads' = [loads EXCEPT ![i] = IdleLoad]
    /\ sent' = [op |-> "reload", success |-> modelLoaded, backend |-> backend,
                error |-> loadError, result |-> loads[i].result,
                chosen |-> loads[i].chosen]
    /\ UNCHANGED <<rev, listening, modelVars, activeUsers, totalConnections,
                   peakUsers, totalDetections, dets, maxActive>>

ReloadRespond == \E i \in LoadIds \ {0} : ReloadAnswer(i)

\* ------------------------------------------------------ presence tracker

Max(a, b) == IF a > b THEN a ELSE b

\* The response field modelReady: server.js does not send it.
ModelReady == IF rev = "server.js" THEN Absent ELSE IF modelLoaded THEN "true" ELSE "false"

\* A plausible slip: the peak overwritten with the current size on every connect.
PeakOverwritten(size, peak) == size

\* if (stats.activeUsers.size > stats.peakUsers) stats.peakUsers = size
PeakAfterConnect(size, peak) == IF size > peak THEN size ELSE peak

\* POST /connect with req.body.userId = u; g is the identifier generated
\* when u is missing or empty.
Connect(u, g) ==
    /\ Accepting
    /\ totalConnections < MaxConnections
    /\ LET userId == IF Truthy(u) THEN u ELSE g IN
         /\ activeUsers' = activeUsers \cup {userId}
         /\ totalConnections' = totalConnections + 1
         /\ peakUsers' = PeakAfterConnect(Cardinality(activeUsers'), peakUsers)
         /\ maxActive' = Max(maxActive, Cardinality(activeUsers'))
         /\ sent' = [op |-> "connect", req |-> u, success |-> TRUE, userId |-> userId,
                     activeUsers |-> Cardinality(activeUsers'),
                     modelReady |-> ModelReady]
    /\ UNCHANGED <<rev, listening, modelVars, loads, totalDetections, dets>>

\* A plausible slip: clear() where delete(userId) was meant.
ActiveCleared(u) == IF Truthy(u) THEN {} ELSE activeUsers

\* stats.activeUsers.delete(userId), under if (userId)
ActiveAfterDisconnect(u) == IF Truthy(u) THEN activeUsers \ {u} ELSE activeUsers

\* POST /disconnect with req.body.userId = u.
Disconnect(u) ==
    /\ Accepting
    /\ activeUsers' = ActiveAfterDisconnect(u)
    /\ sent' = [op |-> "disconnect", req |-> u, success |-> TRUE,
                activeUsers |-> IF rev = "part_001" THEN -1
                                ELSE Cardinality(activeUsers')]
    /\ UNCHANGED <<rev, listening, modelVars, loads, totalConnections, peakUsers,
                   totalDetections, dets, maxActive>>

\* stats.totalConnections, were the revival to recount from the ids present
ConnectionsReset == Cardinality(activeUsers)
\* The revival branch of /heartbeat: part_001 adds the id and leaves
\* stats.totalConnections alone.
ConnectionsAfterRevival == IF rev = "part_001" THEN totalConnections
                                               ELSE totalConnections + 1

\* POST /heartbeat with req.body.userId = u.
Heartbeat(u) ==
    /\ Accepting
    /\ IF Truthy(u) /\ u \notin activeUsers
       THEN /\ ConnectionsAfterRevival <= MaxConnections
            /\ activeUsers' = activeUsers \cup {u}
            /\ totalConnections' = ConnectionsAfterRevival
       ELSE UNCHANGED <<activeUsers, totalConnections>>
    /\ maxActive' = Max(maxActive, Cardinality(activeUsers'))
    /\ sent' = [op |-> "heartbeat", req |-> u, success |-> TRUE,
                activeUsers |-> IF rev = "part_001" THEN -1
                                ELSE Cardinality(activeUsers'),
                modelReady |-> ModelReady]
    /\ UNCHANGED <<rev, listening, modelVars, loads, peakUsers, totalDetections, dets>>

Presence ==
    \/ \E u \in UserIdInputs, g \in GeneratedIds : Connect(u, g)
    \/ \E u \in UserIdInputs : Disconnect(u)
    \/ \E u \in UserIdInputs : Heartbeat(u)

\* ------------------------------------------------------- /detect handler

\* req.body.image: NoImage when the field is missing, otherwise the string,
\* kept as the lengths of the pieces its commas separate ("a,bc" is <<1, 2>>).
NoImage == << >>
ImageInputs == {NoImage, <<0>>, <<40>>, <<120>>,
                <<22, 0>>, <<22, 40>>, <<22, 99>>, <<22, 120>>}

RECURSIVE SumSeq(_)
SumSeq(q) == IF q = << >> THEN 0 ELSE Head(q) + SumSeq(Tail(q))

\* String.prototype.length
StrLength(str) == SumSeq(str) + Len(str) - 1

\* req.body.image || ''
OrEmpty(image) == IF image = NoImage THEN <<0>> ELSE image

\* if (img.includes(',')) img = img.split(',')[1]
StripPrefix(str) == IF Len(str) > 1 THEN <<str[2]>> ELSE str

\* The encoded image data of a request: its image with any prefix stripped.
DataLength(image) == StrLength(StripPrefix(OrEmpty(image)))

\* A numeric request field that is missing.
NoNumber == -1
MaxDetectionsInputs == {NoNumber, 0, 3}
\* confidence, in hundredths
ConfidenceInputs == {NoNumber, 0, 50}
DefaultMaxDetections == 5
DefaultConfidence == 35

\* x || d on a number-or-undefined value
OrDefault(x, d) == IF x = NoNumber \/ x = 0 THEN d ELSE x

\* What the Detector may return: up to MaxPreds detections, each with a class.
Classes == {"person", "car"}
PredLists == UNION {[1 .. n -> [class : Classes]] : n \in 0 .. MaxPreds}

\* preds.filter(p => p.class === 'person')
IsPerson(p) == p.class = "person"
PersonsOnly(preds) == SelectSeq(preds, IsPerson)

\* The Decoder on data of the given length: it may throw, and does on no data.
DecodeOutcomes(len) == IF len = 0 THEN {"throw"} ELSE {"ok", "throw"}

InFlight == Cardinality({d \in DetIds : dets[d].pc # "idle"})

\* The response of /detect, with what the request did on the way to it.
DetectResponse(r, preds, count, err, bk, failure, raw) ==
    [op |-> "detect", predictions |-> preds, count |-> count, error |-> err,
     backend |-> bk, failure |-> failure, raw |-> raw,
     loaded |-> r.loaded, dataLen |-> r.dataLen,
     decoderCalls |-> r.decoderCalls, detectorCalls |-> r.detectorCalls,
     tensor |-> r.tensor]

\* The body sent when the model is not ready.
NotReadyError ==
    IF rev = "server.js" THEN Absent
    ELSE IF rev = "part_000" THEN (IF Truthy(loadError) THEN loadError ELSE "Model not loaded")
    ELSE "Model not loaded"

\* The body sent by the catch block for an error with message e.
CaughtError(e) == IF rev = "server.js" THEN Absent ELSE e

\* The success body: server.js sends the predictions alone.
SuccessCount(persons) == IF rev = "server.js" THEN NoNumber ELSE Len(persons)
SuccessBackend == IF rev = "part_000" THEN backend ELSE Absent

\* The readiness check at the top of the handler.
NotReady == IF rev = "server.js" THEN ~modelLoaded
            ELSE ~modelLoaded \/ detectionModel = Null

\* The length the handler validates, and whether it rejects the request
\* before decoding: server.js validates nothing, part_000 the stripped
\* data, part_001 the image as sent.
ValidatedLength(image) ==
    IF rev = "part_000" THEN StrLength(StripPrefix(OrEmpty(image)))
    ELSE IF image = NoImage THEN 0 ELSE StrLength(image)
Rejected(image) ==
    /\ rev # "server.js"
    /\ ValidatedLength(image) = 0 \/ ValidatedLength(image) < MinImageLength
InvalidImageError == IF rev = "part_000" THEN "Invalid image data" ELSE "Invalid image"

\* detectionModel.detect(tensor, maxDetections, confidence) is called: the
\* handler suspends until the Detector settles.
CallDetector(d, r) ==
    dets' = [dets EXCEPT ![d] = [r EXCEPT !.pc = "detecting",
                                         !.detectorCalls = r.detectorCalls + 1]]

\* A request is given the lowest identifier no pending request holds.
FreeDet(d) ==
    /\ dets[d].pc = "idle"
    /\ \A e \in DetIds : e < d => dets[e].pc # "idle"

\* POST /detect, from the request to the first await or the response.
DetectBegin(d, image, md, cf) ==
    /\ Accepting
    /\ FreeDet(d)
    /\ totalDetections + InFlight < MaxDetections
    /\ LET r0 == [IdleDet EXCEPT !.loaded = modelLoaded,
                                 !.dataLen = DataLength(image),
                                 !.reqMaxDetections = md,
                                 !.reqConfidence = cf,
                                 !.maxDetections = OrDefault(md, DefaultMaxDetections),
                                 !.confidence = OrDefault(cf, DefaultConfidence)]
           r1 == [r0 EXCEPT !.decoderCalls = 1]
           r2 == [r1 EXCEPT !.tensor = "live"]
       IN
       \/ /\ NotReady
          /\ sent' = DetectResponse(r0, << >>, NoNumber, NotReadyError, Absent, "none", << >>)
          /\ UNCHANGED <<dets, required>>
       \/ /\ ~NotReady
          /\ Rejected(image)
          /\ sent' = DetectResponse(r0, << >>, NoNumber, InvalidImageError, Absent, "none", << >>)
          /\ UNCHANGED <<dets, required>>
       \/ \* tf.node.decodeImage: decoded in the handler's own turn
          /\ ~NotReady
          /\ ~Rejected(image)
          /\ rev = "server.js" \/ (rev = "part_000" /\ backend = "tfjs-node")
          /\ \E out \in DecodeOutcomes(DataLength(image)), e \in ErrorMessages :
               \/ /\ out = "throw"
                  /\ sent' = DetectResponse(r1, << >>, NoNumber, CaughtError(e), Absent,
                                            "decoder", << >>)
                  /\ UNCHANGED dets
               \/ /\ out = "ok"
                  /\ CallDetector(d, r2)
                  /\ UNCHANGED sent
          /\ UNCHANGED required
       \/ \* part_000 on pure tfjs: require('canvas'), then await loadImage
          /\ ~NotReady
          /\ ~Rejected(image)
          /\ rev = "part_000" /\ backend # "tfjs-node"
          /\ \E okCanvas \in RequireOutcomes("canvas"), e \in ErrorMessages :
               \/ /\ ~okCanvas
                  /\ sent' = DetectResponse(r0, << >>, NoNumber, CaughtError(e), Absent,
                                            "decoder", << >>)
                  /\ UNCHANGED <<dets, required>>
               \/ /\ okCanvas
                  /\ required' = required \cup {"canvas"}
                  /\ dets' = [dets EXCEPT ![d] = [r1 EXCEPT !.pc = "decoding"]]
                  /\ UNCHANGED sent
       \/ \* part_001: await decodeImage, suspended in Jimp.read
          /\ ~NotReady
          /\ ~Rejected(image)
          /\ rev = "part_001"
          /\ dets' = [dets EXCEPT ![d] = [r1 EXCEPT !.pc = "decoding"]]
          /\ UNCHANGED <<sent, required>>
    /\ UNCHANGED <<rev, listening, tf, detectionModel, modelLoaded, loadError, backend,
                   loads, presenceVars, totalDetections>>

\* The awaited decode settles (loadImage of part_000, Jimp.read of part_001):
\* the tensor is built and the Detector called, or the catch block answers.
DetectDecoded(d) ==
    /\ dets[d].pc = "decoding"
    /\ \E out \in DecodeOutcomes(dets[d].dataLen), e \in ErrorMessages :
         \/ /\ out = "throw"
            /\ sent' = DetectResponse(dets[d], << >>, NoNumber, CaughtError(e), Absent,
                                      "decoder", << >>)
            /\ dets' = [dets EXCEPT ![d] = IdleDet]
         \/ /\ out = "ok"
            /\ CallDetector(d, [dets[d] EXCEPT !.tensor = "live"])
            /\ UNCHANGED sent
    /\ UNCHANGED <<rev, listening, modelVars, loads, presenceVars, totalDetections>>

\* stats.totalDetections++ left out
CountForgotten(n) == n
\* stats.totalDetections++
CountAfterDetection(n) == n + 1

\* The handler, were it to empty stats.activeUsers
DetectClearsUsers ==
    /\ activeUsers' = {}
    /\ UNCHANGED <<rev, listening, modelVars, loads, totalConnections, peakUsers, maxActive>>
\* What the /detect handler leaves alone after the Detector settled: the
\* model state and everything the presence tracker keeps.
DetectLeaves == UNCHANGED <<rev, listening, modelVars, loads, presenceVars>>

\* The Detector settles: on a result the tensor is disposed, the detection
\* counted and the persons sent; on an error the catch block answers.
DetectFinish(d) ==
    /\ dets[d].pc = "detecting"
    /\ \/ \E preds \in PredLists :
            LET r == [dets[d] EXCEPT !.tensor = "disposed"] IN
            /\ totalDetections' = CountAfterDetection(totalDetections)
            /\ sent' = DetectResponse(r, PersonsOnly(preds), SuccessCount(PersonsOnly(preds)),
                                      Absent, SuccessBackend, "none", preds)
       \/ \E e \in ErrorMessages :
            /\ sent' = DetectResponse(dets[d], << >>, NoNumber, CaughtError(e), Absent,
                                      "detector", << >>)
            /\ UNCHANGED totalDetections
    /\ dets' = [dets EXCEPT ![d] = IdleDet]
    /\ DetectLeaves

Detect ==
    \/ \E d \in DetIds, image \in ImageInputs, md \in MaxDetectionsInputs,
          cf \in ConfidenceInputs : DetectBegin(d, image, md, cf)
    \/ \E d \in DetIds : DetectDecoded(d)
    \/ \E d \in DetIds : DetectFinish(d)

\* ------------------------------------------------------------ read endpoints

\* The backend GET / reports: server.js asks TensorFlow once it is required,
\* part_000 reports CONFIG.backend, part_001 a fixed name.
RootBackend ==
    IF rev = "server.js" THEN (IF tf = Null THEN "loading" ELSE "tensorflow")
    ELSE IF rev = "part_000" THEN backend
    ELSE "tfjs-cpu"

\* A field only part_000 adds to the /health and /stats bodies.
OnlyB(x) == IF rev = "part_000" THEN x ELSE Absent

\* The bodies of the read endpoints (the uptime, a clock reading, left out).
RootBody ==
    [op |-> "root", status |-> "online", modelLoaded |-> modelLoaded,
     backend |-> RootBackend, activeUsers |-> Cardinality(activeUsers),
     error |-> IF rev = "server.js" THEN Absent ELSE loadError]
HealthBody ==
    [op |-> "health", status |-> "healthy", modelLoaded |-> modelLoaded,
     backend |-> OnlyB(backend), error |-> OnlyB(loadError)]
StatsWithoutDetections ==
    [op |-> "stats", activeUsers |-> Cardinality(activeUsers), peakUsers |-> peakUsers,
     totalConnections |-> totalConnections, totalDetections |-> 0,
     modelLoaded |-> modelLoaded, backend |-> OnlyB(backend), error |-> OnlyB(loadError)]
StatsBody ==
    [op |-> "stats", activeUsers |-> Cardinality(activeUsers), peakUsers |-> peakUsers,
     totalConnections |-> totalConnections, totalDetections |-> totalDetections,
     modelLoaded |-> modelLoaded, backend |-> OnlyB(backend), error |-> OnlyB(loadError)]
StatusPage ==
    [op |-> "status", modelLoaded |-> modelLoaded,
     activeUsers |-> Cardinality(activeUsers), totalDetections |-> totalDetections]

\* GET /, /health, /stats, /status: each handler only sends its body.
Respond(body) ==
    /\ Accepting
    /\ sent' = body
    /\ UNCHANGED <<rev, listening, modelVars, loads, presenceVars, totalDetections, dets>>

GetRoot == Respond(RootBody)
GetHealth == Respond(HealthBody)
GetStats == Respond(StatsBody)
GetStatus == Respond(StatusPage)

Read == GetRoot \/ GetHealth \/ GetStats \/ GetStatus

\* ---------------------------------------------------------- specification

Next ==
    \/ StartServer
    \/ LoadProgress
    \/ Reload
    \/ ReloadRespond
    \/ Presence
    \/ Detect
    \/ Read

Spec == Init /\ [][Next]_vars

\* The service as its presence endpoints drive it: startup, then any
\* sequence of /connect, /disconnect and /heartbeat requests.
PresenceNext ==
    \/ StartServer
    \/ LoadProgress
    \/ Presence

PresenceSpec == Init /\ [][PresenceNext]_vars

\* The service as its model endpoints drive it: startup, reloads, and any
\* interleaving of /detect requests with them.
DetectNext ==
    \/ StartServer
    \/ LoadProgress
    \/ Reload
    \/ ReloadRespond
    \/ Detect

DetectSpec == Init /\ [][DetectNext]_vars

\* The service as its operator drives it: startup, then any sequence of
\* /reload-model requests, overlapping ones included.
LoaderNext ==
    \/ StartServer
    \/ LoadProgress
    \/ Reload
    \/ ReloadRespond

LoaderSpec == Init /\ [][LoaderNext]_vars

\* The service as its clients drive it while no operator reloads the model:
\* startup, /detect requests and the read endpoints.
ServeNext ==
    \/ StartServer
    \/ LoadProgress
    \/ Detect
    \/ Read

ServeSpec == Init /\ [][ServeNext]_vars

\* /detect requests that take every path of the handler: no image, and a
\* prefixed image of valid length, the numeric fields left to their defaults.
LiveImages == {NoImage, <<22, 120>>}
LiveDetect ==
    \/ \E d \in DetIds, image \in LiveImages : DetectBegin(d, image, NoNumber, NoNumber)
    \/ \E d \in DetIds : DetectDecoded(d)
    \/ \E d \in DetIds : DetectFinish(d)

\* The service with its model, detection and read endpoints, under the
\* scheduling Node guarantees: the startup call is made, every external call
\* a handler awaits (the loader, the Decoder, the Detector) settles, and a
\* continuation that is ready to run is run.
LiveNext ==
    \/ StartServer
    \/ LoadProgress
    \/ Reload
    \/ ReloadRespond
    \/ LiveDetect
    \/ Read

Fairness ==
    /\ WF_vars(StartServer)
    /\ \A i \in LoadIds : WF_vars(LoadResume(i))
    /\ \A i \in LoadIds \ {0} : WF_vars(ReloadAnswer(i))
    /\ \A d \in DetIds : WF_vars(DetectDecoded(d)) /\ WF_vars(DetectFinish(d))

LiveSpec == Init /\ [][LiveNext]_vars /\ Fairness

\* The whole service: every endpoint, any interleaving of their handlers.
\* To keep the product of the presence and the detection state spaces small,
\* presence requests come from one client ("alice") and from clients with
\* no id, /detect requests from LiveImages, and the operator issues one
\* /reload-model at a time.
FewPresence ==
    \/ \E u \in {Absent, "alice"} : Connect(u, "user_1_a")
    \/ \E u \in {Absent, "alice"} : Disconnect(u)
    \/ \E u \in {Absent, "alice"} : Heartbeat(u)

OneReload == Reload /\ \A i \in LoadIds \ {0} : loads[i].pc = "idle"

ServiceNext ==
    \/ StartServer
    \/ LoadProgress
    \/ OneReload
    \/ ReloadRespond
    \/ LiveDetect
    \/ Read
    \/ FewPresence

ServiceSpec == Init /\ [][ServiceNext]_vars

\* ------------------------------------------------- presence properties

\* C1: after every Connect, Disconnect and Heartbeat the number of active
\* users is at most peakUsers.
ActiveWithinPeak == Cardinality(activeUsers) <= peakUsers

\* C2: totalConnections is at least the number of active users, in every
\* reachable state.
ConnectionsCoverActive == totalConnections >= Cardinality(activeUsers)

\* C3: a heartbeat of an active id changes neither activeUsers nor
\* totalConnections; a heartbeat of a non-empty id that is not active adds
\* the id and increments totalConnections by exactly 1.
HeartbeatContract ==
    [][\A u \in UserIdInputs :
         Heartbeat(u) =>
           /\ u \in activeUsers => UNCHANGED <<activeUsers, totalConnections>>
           /\ (Truthy(u) /\ u \notin activeUsers) =>
                /\ activeUsers' = activeUsers \cup {u}
                /\ totalConnections' = totalConnections + 1]_vars

\* C4: a connect with a supplied id leaves the id active, increments
\* totalConnections by exactly 1 even when the id was already active (the
\* set then keeps its size), and sets peakUsers to the larger of the old
\* peak and the new size.
ConnectContract ==
    [][\A u \in SuppliedIds, g \in GeneratedIds :
         Connect(u, g) =>
           /\ u \in activeUsers'
           /\ activeUsers' = activeUsers \cup {u}
           /\ totalConnections' = totalConnections + 1
           /\ u \in activeUsers => Cardinality(activeUsers') = Cardinality(activeUsers)
           /\ peakUsers' = Max(peakUsers, Cardinality(activeUsers'))
           /\ sent'.userId = u]_vars

\* A connect of an id has been answered with the id active, a connection
\* counted beyond the one active user (the id had connected before), and the
\* peak at the new size.
ConnectWitness ==
    /\ sent.op = "connect"
    /\ sent.req = "alice"
    /\ activeUsers = {"alice"}
    /\ totalConnections = 2
    /\ peakUsers = 1

\* C5: peakUsers equals the largest size activeUsers has had so far.
PeakIsHighWater == peakUsers = maxActive

\* C6: a disconnect changes neither totalConnections nor peakUsers and
\* answers success; with the id missing, empty or not active it changes
\* nothing at all; with the id active it removes exactly that id.
DisconnectContract ==
    [][\A u \in UserIdInputs :
         Disconnect(u) =>
           /\ UNCHANGED <<totalConnections, peakUsers>>
           /\ sent'.success = TRUE
           /\ IF Truthy(u) /\ u \in activeUsers
              THEN /\ activeUsers' = activeUsers \ {u}
                   /\ Cardinality(activeUsers') = Cardinality(activeUsers) - 1
              ELSE UNCHANGED <<activeUsers, totalConnections, peakUsers,
                               totalDetections>>]_vars

\* A disconnect of alice has been answered and has left bob, the other of
\* two users who were active together, in the set.
DisconnectWitness ==
    /\ sent.op = "disconnect"
    /\ sent.req = "alice"
    /\ activeUsers = {"bob"}
    /\ totalConnections = 2
    /\ peakUsers = 2

\* --------------------------------------------------- /detect properties

\* A /detect request was answered after the Detector returned a result.
Succeeded == sent.op = "detect" /\ sent.detectorCalls = 1 /\ sent.failure = "none"

\* A step in which a /detect request is answered with a successful result:
\* its handler was waiting for the Detector and sends the Detector's result.
AnswersSuccess ==
    /\ \E d \in DetIds : dets[d].pc = "detecting" /\ dets'[d].pc = "idle"
    /\ sent'.op = "detect" /\ sent'.detectorCalls = 1 /\ sent'.failure = "none"

\* C11: totalDetections grows by exactly one in every step that answers a
\* /detect with a successful result and is unchanged by every other step,
\* those that answer a /detect with a failure included; so it equals the
\* number of successful detect responses so far.
DetectionsCounted ==
    [][totalDetections' = totalDetections + (IF AnswersSuccess THEN 1 ELSE 0)]_vars

\* Two requests have been answered with a result, and both were counted.
DetectionsCountedWitness == Succeeded /\ totalDetections = 2

\* C12: no finished /detect request leaves its pixel tensor undisposed,
\* whether detection succeeded or the Detector threw.
TensorDisposed == sent.op = "detect" => sent.tensor # "live"

\* C7: a /detect handled while the model is not loaded is answered with no
\* predictions and a non-empty error, and calls neither Decoder nor Detector.
NotReadyAnswered ==
    (sent.op = "detect" /\ ~sent.loaded) =>
        /\ sent.predictions = << >>
        /\ Truthy(sent.error)
        /\ sent.decoderCalls = 0
        /\ sent.detectorCalls = 0

\* C8: with the model loaded, a /detect whose encoded image data (prefix
\* stripped) is empty or shorter than 100 characters is answered with no
\* predictions and a validation error, and the Decoder is never called for it.
ShortPayloadRejected ==
    /\ (sent.op = "detect" /\ sent.loaded /\ sent.dataLen < MinImageLength) =>
          /\ sent.predictions = << >>
          /\ sent.error \in {"Invalid image data", "Invalid image"}
          /\ sent.decoderCalls = 0
    /\ \A d \in DetIds :
          (dets[d].pc # "idle" /\ dets[d].loaded /\ dets[d].dataLen < MinImageLength) =>
              dets[d].decoderCalls = 0

\* C9: when the Decoder or the Detector throws, the request is answered with
\* no predictions and a diagnostic error message.
FailureAnswered ==
    (sent.op = "detect" /\ sent.failure \in {"decoder", "detector"}) =>
        /\ sent.predictions = << >>
        /\ Truthy(sent.error)

\* C10: a successful /detect response carries count equal to the length of
\* predictions, and predictions holds the person detections of the Detector's
\* result, all of them and nothing else.
SuccessWellFormed ==
    Succeeded =>
        /\ sent.count = Len(sent.predictions)
        /\ \A k \in 1 .. Len(sent.predictions) : sent.predictions[k].class = "person"
        /\ Len(sent.predictions) =
             Cardinality({k \in 1 .. Len(sent.raw) : sent.raw[k].class = "person"})

\* --------------------------------------------------- model load properties

\* C13: when a /reload-model call returns, the model is loaded with no
\* error kept, or not loaded with a non-empty error; the response reports
\* that state (success = loaded, error = lastError).
ReloadSettled ==
    sent.op = "reload" =>
        \/ sent.success /\ sent.error = Null
        \/ ~sent.success /\ Truthy(sent.error)

\* A step in which invocation i of loadModel returns.
FinishesLoad(i) ==
    /\ loads[i].pc \notin {"done", "returned"}
    /\ loads'[i].pc \in {"done", "returned"}

\* The diagnostic d contains the message m.
Mentions(d, m) ==
    \E k \in 1 .. Len(d) - Len(m) + 1 : SubSeq(d, k, k + Len(m) - 1) = m

\* A step in which a load of part_000 returns with every candidate failed.
AllCandidatesFail(i) ==
    rev = "part_000" /\ FinishesLoad(i) /\ loads'[i].result = "backendFailed"

BackendFailureDiagnostics ==
    IF rev = "server.js" THEN {}
    ELSE IF rev = "part_000" THEN {BackendDiagnostic}
    ELSE {ErrorOf("tfjs")} \cup ErrorMessages

\* C15: a load whose backend selection succeeded and whose model artifact
\* failed to load ends with loaded=false and a non-empty lastError that no
\* backend-selection failure could have left; initial load and reloads alike.
ModelFailureReported ==
    [][\A i \in LoadIds : (FinishesLoad(i) /\ loads'[i].result = "modelFailed") =>
          /\ ~modelLoaded'
          /\ Truthy(loadError')
          /\ loadError' \notin BackendFailureDiagnostics]_vars

\* C16: a load of part_000 tries tfjs-node, then tfjs only if tfjs-node
\* failed; whenever it ends with loaded=true, backend is the candidate it
\* chose, the first that initialized, and lastError is cleared.
BackendInOrder ==
    [][\A i \in LoadIds : (rev = "part_000" /\ FinishesLoad(i)) =>
          LET r == loads'[i] IN
          /\ r.tried = SubSeq(Candidates, 1, Len(r.tried))
          /\ modelLoaded' =>
                /\ r.chosen = r.tried[Len(r.tried)]
                /\ backend' = r.chosen
                /\ loadError' = Null]_vars

\* Some invocation of loadModel is suspended at one of its awaits.
LoadInFlight == \E i \in LoadIds : loads[i].pc \notin {"idle", "done", "returned"}

\* C17: while a model load is in flight, a request the server handles
\* observes loaded=false (so a /detect is answered not-ready at once).
LoadingObserved == (Accepting /\ LoadInFlight) => ~modelLoaded

\* The initial load has ended, and it failed.
FailedStart == loads[0].pc = "done" /\ loads[0].result # "loaded"

\* C18: a failed initial load is not fatal. loadModel returns and the server
\* listens; from then on /health, /stats and /status can be requested and
\* report loaded=false, and a /detect is answered not-ready: no predictions,
\* neither Decoder nor Detector called.
FailedStartServes ==
    /\ loads[0].pc = "done" => listening
    /\ FailedStart =>
          /\ ~modelLoaded
          /\ ENABLED GetHealth /\ ENABLED GetStats /\ ENABLED GetStatus
          /\ sent.op \in {"health", "stats", "status"} => ~sent.modelLoaded
          /\ sent.op = "health" => sent.status = "healthy"
          /\ sent.op = "detect" =>
                /\ ~sent.loaded
                /\ sent.predictions = << >>
                /\ sent.decoderCalls = 0 /\ sent.detectorCalls = 0

\* After a failed initial load a /detect request has been answered.
FailedStartWitness == FailedStart /\ sent.op = "detect"

\* C20: loaded turns from false to true only in a step that completes a
\* load, the initial one or a reload, with success, and does so in each such
\* step; while loaded is false and no load is in flight it stays false, the
\* initial load is never run again, and a revision with no /reload-model
\* endpoint never loads again.
Lifecycle ==
    [][/\ (~modelLoaded /\ modelLoaded') =>
             \E i \in LoadIds : FinishesLoad(i) /\ loads'[i].result = "loaded"
       /\ \A i \in LoadIds :
             (FinishesLoad(i) /\ loads'[i].result = "loaded") => modelLoaded'
       /\ (~modelLoaded /\ ~LoadInFlight) => ~modelLoaded'
       /\ loads[0].pc = "done" => loads'[0].pc = "done"
       /\ rev # "part_000" => \A i \in LoadIds \ {0} : loads'[i].pc = "idle"]_vars

\* The initial load failed, and a later reload has loaded the model.
LifecycleWitness ==
    FailedStart /\ modelLoaded /\ sent.op = "reload" /\ sent.result = "loaded"

\* --------------------------------------------------- response properties

\* The handlers that are suspended, waiting to answer their request.
PendingDetects == {d \in DetIds : dets[d].pc # "idle"}
PendingReloads == {i \in LoadIds \ {0} : loads[i].pc # "idle"}

ReloadsIsolated ==
    /\ modelLoaded => loadError = Null
    /\ sent.op = "reload" =>
          /\ ~(sent.success /\ sent.error # Null)
          /\ sent.result # "loaded" => ~sent.success

\* C26: whenever loaded=true a Detector is held and, in part_000, backend
\* is one of the candidates; so a /detect that passed the readiness check
\* and waits for the Detector has a Detector to call.
LoadedHasDetector ==
    /\ modelLoaded =>
          /\ detectionModel # Null
          /\ rev = "part_000" => backend \in {Candidates[k] : k \in 1 .. Len(Candidates)}
    /\ \A d \in DetIds : dets[d].pc = "detecting" => detectionModel # Null

\* A reload has failed while the model stayed loaded, and a /detect is at
\* the Detector.
LoadedHasDetectorWitness ==
    /\ modelLoaded /\ loadError # Null
    /\ \E d \in DetIds : dets[d].pc = "detecting"

\* ------------------------------------------------- Detector arguments

\* The value the Detector is to get for a numeric field of the request:
\* the request's own value when it carries one, 0 included, else the default.
OwnOrDefault(x, d) == IF x = NoNumber THEN d ELSE x

\* C24: a /detect that reaches the Detector passes it the request's own
\* maxDetections and confidence whenever the request supplies them, a
\* supplied 0 included, and the defaults 5 and 0.35 only for a missing field.
DetectorGetsOwnValues ==
    \A d \in DetIds : dets[d].pc = "detecting" =>
        /\ dets[d].maxDetections = OwnOrDefault(dets[d].reqMaxDetections, DefaultMaxDetections)
        /\ dets[d].confidence = OwnOrDefault(dets[d].reqConfidence, DefaultConfidence)

\* ------------------------------------------------- generated identifiers

\* A step that handles a /connect whose request carries no id.
ConnectsWithoutId ==
    /\ totalConnections' = totalConnections + 1
    /\ sent'.op = "connect" /\ ~Truthy(sent'.req)

\* C22: a /connect with no id (absent or empty) yields an identifier that
\* was not active, as an identifier never returned or used before cannot be,
\* adds it to activeUsers, and counts exactly one connection.
GeneratedIdIsFresh ==
    [][ConnectsWithoutId =>
          /\ sent'.userId \notin activeUsers
          /\ activeUsers' = activeUsers \cup {sent'.userId}
          /\ totalConnections' = totalConnections + 1]_vars

\* ------------------------------------------------- whole-service properties

\* C21: in every step totalConnections, peakUsers and totalDetections do
\* not decrease, and activeUsers loses a member only in a step that answers
\* a /disconnect carrying that member's id, and loses that member alone.
CountersNeverDecrease ==
    [][/\ totalConnections' >= totalConnections
       /\ peakUsers' >= peakUsers
       /\ totalDetections' >= totalDetections
       /\ ~(activeUsers \subseteq activeUsers') =>
             /\ sent'.op = "disconnect"
             /\ activeUsers \ activeUsers' = {sent'.req}]_vars

\* Every counter has grown, and the one client who connected has left.
CountersNeverDecreaseWitness ==
    /\ totalConnections > 1 /\ peakUsers > 0 /\ totalDetections > 0
    /\ sent.op = "disconnect" /\ activeUsers = {}

\* The model state the endpoints report: loaded, backend, lastError.
modelState == <<modelLoaded, backend, loadError>>

ReadOps == {"root", "health", "stats", "status"}

\* C23: a step that answers a read endpoint leaves activeUsers, the three
\* counters and the model state unchanged, and the /stats body carries the
\* current size of activeUsers, peakUsers, totalConnections, totalDetections
\* and loaded.
ReadsOnlyRead ==
    [][(sent' # sent /\ sent'.op \in ReadOps) =>
          /\ UNCHANGED <<activeUsers, totalConnections, peakUsers, totalDetections,
                         modelState>>
          /\ sent'.op = "stats" =>
                /\ sent'.activeUsers = Cardinality(activeUsers)
                /\ sent'.peakUsers = peakUsers
                /\ sent'.totalConnections = totalConnections
                /\ sent'.totalDetections = totalDetections
                /\ sent'.modelLoaded = modelLoaded]_vars

\* /stats has been answered with a client active, a detection counted and
\* the model loaded.
ReadsOnlyReadWitness ==
    /\ sent.op = "stats" /\ sent.activeUsers > 0 /\ sent.totalDetections > 0
    /\ sent.modelLoaded

\* Steps of the presence handlers, of the /detect handler and of a model
\* load or reload, told by what they write or answer.
PresenceStep ==
    \/ <<activeUsers, totalConnections, peakUsers>>' # <<activeUsers, totalConnections, peakUsers>>
    \/ sent' # sent /\ sent'.op \in {"connect", "disconnect", "heartbeat"}
DetectStep == dets' # dets \/ (sent' # sent /\ sent'.op = "detect")
ReloadStep == loads' # loads \/ (sent' # sent /\ sent'.op = "reload")

\* C27: Connect, Disconnect and Heartbeat change neither totalDetections
\* nor the model state; Detect changes neither activeUsers, totalConnections,
\* peakUsers nor the model state; a load or reload changes neither
\* activeUsers nor any of the three counters.
FramedApart ==
    [][/\ PresenceStep => UNCHANGED <<totalDetections, modelState>>
       /\ DetectStep => UNCHANGED <<activeUsers, totalConnections, peakUsers, modelState>>
       /\ ReloadStep => UNCHANGED <<activeUsers, totalConnections, peakUsers,
                                    totalDetections>>]_vars

\* With a client active and the model reloaded with success, a detection
\* has been answered.
FramedApartWitness ==
    /\ Succeeded /\ activeUsers # {} /\ modelLoaded
    /\ loads[0].result # "loaded"

====
